---- MODULE Spec2Model ----
(***************************************************************************)
(* WhatsApp chat analyser: the transcript parser (preprocess.py), the      *)
(* aggregation helpers (helper.py) and the caller's script (app.py).       *)
(*                                                                         *)
(* Text is a TLA+ string; Ch(s, i) is its i-th character.  The decoded     *)
(* file is drawn in Init from transcripts of at most MaxLines lines; each  *)
(* run of the script is then one behaviour: preprocess, the one-row check, *)
(* the sender list, the "Show Analysis" handler.                           *)
(***************************************************************************)
EXTENDS Integers, Sequences, FiniteSets, TLC

\* Bound: the number of lines of the uploaded transcript.
MaxLines == 3

(***************************************************************************)
(* Characters                                                              *)
(***************************************************************************)

\* U+202F NARROW NO-BREAK SPACE is written "~" in this module (a module is
\* ASCII); like U+202F it is whitespace and sorts after every other character.
NNBSP == "~"

Ch(s, i) == SubSeq(s, i, i)

CharsOf(s) == { Ch(s, i) : i \in 1..Len(s) }

DigitChars == "0123456789"

UpperChars == "ABCDEFGHIJKLMNOPQRSTUVWXYZ"

LowerChars == "abcdefghijklmnopqrstuvwxyz"

\* Code-point order of the characters that occur in the transcripts.
CodeOrder == "\t\n !,-/0123456789:<>ABCDEFGHIJKLMNOPQRSTUVWXYZ_abcdefghijklmnopqrstuvwxyz~"

\* \d
IsDigit(c) == c \in CharsOf(DigitChars)

\* \s (and str.isspace, which str.split and str.strip use)
IsSpace(c) == c \in {" ", "\n", "\t", NNBSP}

\* \w
IsWord(c) == c \in CharsOf(DigitChars) \cup CharsOf(UpperChars) \cup CharsOf(LowerChars) \cup {"_"}

DigitVal(c) == (CHOOSE i \in 1..10 : Ch(DigitChars, i) = c) - 1

Ord(c) == CHOOSE i \in 1..Len(CodeOrder) : Ch(CodeOrder, i) = c

\* str.lower on one character
LowerCh(c) ==
  IF \E i \in 1..26 : Ch(UpperChars, i) = c
  THEN Ch(LowerChars, CHOOSE i \in 1..26 : Ch(UpperChars, i) = c)
  ELSE c

RECURSIVE lower(_)
lower(s) == IF s = "" THEN "" ELSE LowerCh(Ch(s, 1)) \o lower(Tail(s))

\* The order list.sort() puts two strings in: code point by code point.
RECURSIVE StrLess(_, _)
StrLess(a, b) ==
  IF b = "" THEN FALSE
  ELSE IF a = "" THEN TRUE
  ELSE IF Ch(a, 1) = Ch(b, 1) THEN StrLess(Tail(a), Tail(b))
  ELSE Ord(Ch(a, 1)) < Ord(Ch(b, 1))

\* int() of a run of digits
RECURSIVE Num(_)
Num(s) == IF s = "" THEN 0 ELSE 10 * Num(SubSeq(s, 1, Len(s) - 1)) + DigitVal(Ch(s, Len(s)))

(***************************************************************************)
(* preprocess.py: the delimiter pattern and re.split / re.findall          *)
(***************************************************************************)

Item(cls, lo, hi) == [cls |-> cls, lo |-> lo, hi |-> hi]

Lit(c) == Item(c, 1, 1)

\* r'\d{1,2}\/\d{1,2}\/\d{2,4},\s\d{1,2}:\d{2}[\s\S][p,a]m\s-[\s\S]'
pattern ==
  << Item("digit", 1, 2), Lit("/"), Item("digit", 1, 2), Lit("/"),
     Item("digit", 2, 4), Lit(","), Item("space", 1, 1),
     Item("digit", 1, 2), Lit(":"), Item("digit", 2, 2),
     Item("any", 1, 1), Item("p,a", 1, 1), Lit("m"),
     Item("space", 1, 1), Lit("-"), Item("any", 1, 1) >>

InClass(c, cls) ==
  CASE cls = "digit" -> IsDigit(c)
    [] cls = "space" -> IsSpace(c)
    [] cls = "any"   -> TRUE
    [] cls = "p,a"   -> c \in {"p", ",", "a"}
    [] OTHER         -> c = cls

\* How many characters from position i on are in class cls, at most hi.
RECURSIVE ClassRun(_, _, _, _)
ClassRun(s, i, cls, hi) ==
  IF hi > 0 /\ i <= Len(s) /\ InClass(Ch(s, i), cls)
  THEN 1 + ClassRun(s, i + 1, cls, hi - 1)
  ELSE 0

\* Matching failed.
NoMatch == << -1 >>

\* The regex engine: items k.. of pat matched at position i of s, each item
\* greedy, with backtracking.  The number of characters each item took, or
\* NoMatch.
RECURSIVE run_lengths(_, _, _, _), try_count(_, _, _, _, _)
run_lengths(pat, s, i, k) ==
  IF k > Len(pat) THEN << >>
  ELSE try_count(pat, s, i, k, ClassRun(s, i, pat[k].cls, pat[k].hi))

try_count(pat, s, i, k, n) ==
  IF n < pat[k].lo THEN NoMatch
  ELSE LET r == run_lengths(pat, s, i + n, k + 1)
       IN  IF r # NoMatch THEN << n >> \o r ELSE try_count(pat, s, i, k, n - 1)

RECURSIVE Sum(_)
Sum(seq) == IF Len(seq) = 0 THEN 0 ELSE seq[1] + Sum(Tail(seq))

\* The position after the match of pat at position i of s, 0 when none.
match_end(pat, s, i) ==
  LET g == run_lengths(pat, s, i, 1)
  IN  IF g = NoMatch THEN 0 ELSE i + Sum(g)

\* The leftmost non-overlapping matches of pattern from position i on, as
\* <<start, end>> with end the position after the match.
RECURSIVE re_spans(_, _)
re_spans(s, i) ==
  IF i > Len(s) THEN << >>
  ELSE LET e == match_end(pattern, s, i)
       IN  IF e # 0 THEN << <<i, e>> >> \o re_spans(s, e) ELSE re_spans(s, i + 1)

\* re.findall(pattern, data)
re_findall(s) ==
  LET sp == re_spans(s, 1)
  IN  [k \in 1..Len(sp) |-> SubSeq(s, sp[k][1], sp[k][2] - 1)]

\* re.split(pattern, data): the text before, between and after the matches
re_split(s) ==
  LET sp == re_spans(s, 1)
      n  == Len(sp)
  IN  [k \in 1..(n + 1) |->
         SubSeq(s, IF k = 1 THEN 1 ELSE sp[k - 1][2],
                   IF k = n + 1 THEN Len(s) ELSE sp[k][1] - 1)]

(***************************************************************************)
(* preprocess.py: dates                                                    *)
(***************************************************************************)

\* i.replace(U+202F, " ")
RECURSIVE replace_nnbsp(_)
replace_nnbsp(s) ==
  IF s = "" THEN ""
  ELSE (IF Ch(s, 1) = NNBSP THEN " " ELSE Ch(s, 1)) \o replace_nnbsp(Tail(s))

\* str.strip()
RECURSIVE strip(_)
strip(s) ==
  IF s = "" THEN ""
  ELSE IF IsSpace(Ch(s, 1)) THEN strip(Tail(s))
  ELSE IF IsSpace(Ch(s, Len(s))) THEN strip(SubSeq(s, 1, Len(s) - 1))
  ELSE s

MonthNames ==
  << "January", "February", "March", "April", "May", "June", "July",
     "August", "September", "October", "November", "December" >>

DayNames ==
  << "Monday", "Tuesday", "Wednesday", "Thursday", "Friday", "Saturday", "Sunday" >>

IsLeap(y) == (y % 4 = 0 /\ y % 100 # 0) \/ y % 400 = 0

DaysInMonth(y, m) ==
  IF m = 2 THEN (IF IsLeap(y) THEN 29 ELSE 28)
  ELSE IF m \in {4, 6, 9, 11} THEN 30 ELSE 31

\* Days from 1 January of year 1 (day 1, a Monday) to the date.
RECURSIVE DaysBeforeMonth(_, _)
DaysBeforeMonth(y, m) == IF m = 1 THEN 0 ELSE DaysBeforeMonth(y, m - 1) + DaysInMonth(y, m - 1)

Ordinal(y, m, d) ==
  LET p == y - 1
  IN  p * 365 + (p \div 4) - (p \div 100) + (p \div 400) + DaysBeforeMonth(y, m) + d

NoDate == [ok |-> FALSE]

\* The shape of the regex strptime compiles '%d/%m/%y, %I:%M %p -' to:
\* (3[0-1]|[1-2]\d|0[1-9]|[1-9])/(1[0-2]|0[1-9]|[1-9])/(\d\d),\s+
\* (1[0-2]|0[1-9]|[1-9]):([0-5]\d|\d)\s+(am|pm)\s+-
\* as runs of digits, whitespace and literals; to_datetime checks the values.
strptime_shape ==
  << Item("digit", 1, 2), Lit("/"), Item("digit", 1, 2), Lit("/"),
     Item("digit", 2, 2), Lit(","), Item("space", 1, 1000),
     Item("digit", 1, 2), Lit(":"), Item("digit", 1, 2),
     Item("space", 1, 1000), Item("any", 2, 2), Item("space", 1, 1000), Lit("-") >>

\* The text the k-th item of a match took, the match starting at position 1.
field(s, g, k) ==
  LET start == 1 + Sum(SubSeq(g, 1, k - 1))
  IN  SubSeq(s, start, start + g[k] - 1)

\* pd.to_datetime(s, format='%d/%m/%y, %I:%M %p -') of one string: the regex
\* must match all of s, and the day must exist in the month.  NoDate is the
\* ValueError.
to_datetime(s) ==
  LET g  == run_lengths(strptime_shape, s, 1, 1)
      d  == Num(field(s, g, 1))
      m  == Num(field(s, g, 3))
      yy == Num(field(s, g, 5))
      h  == Num(field(s, g, 8))
      mi == Num(field(s, g, 10))
      ap == lower(field(s, g, 12))
      year == IF yy <= 68 THEN 2000 + yy ELSE 1900 + yy
      hour == IF ap = "am" THEN (IF h = 12 THEN 0 ELSE h)
                           ELSE (IF h = 12 THEN 12 ELSE h + 12)
  IN  IF /\ g # NoMatch
         /\ Sum(g) = Len(s)
         /\ d \in 1..31
         /\ m \in 1..12
         /\ h \in 1..12
         /\ (g[10] = 2 => mi \in 0..59)
         /\ ap \in {"am", "pm"}
         /\ d <= DaysInMonth(year, m)
      THEN [ok |-> TRUE, year |-> year, month_num |-> m, day |-> d,
            hour |-> hour, minute |-> mi]
      ELSE NoDate

(***************************************************************************)
(* preprocess.py: preprocess                                               *)
(***************************************************************************)

ErrorMessage == "your chat file is courrpted or something went wrong!"

\* pd.DataFrame({'Error': [...]}): one column, one row
ErrorFrame == [columns |-> <<"Error">>, rows |-> << [Error |-> ErrorMessage] >>]

NormalColumns ==
  << "date", "user", "message", "year", "month", "day", "hour", "minute",
     "month_num", "only_date", "day_name" >>

\* The value of df when preprocess raised: there is no table.
NoFrame == [columns |-> << >>, rows |-> << >>]

\* split_messages without the [1:]: the text before the first match is kept.
split_messages_keep_first(data) == re_split(data)

\* re.split(pattern, data)[1:]
split_messages(data) == Tail(re_split(data))

\* re.split(r'(?<=\S):\s', msg, 1): the position of the first colon that follows
\* a non-whitespace character and is followed by whitespace, 0 when none
colon_at(msg) ==
  LET hits == { i \in 2..(Len(msg) - 1) :
                  /\ Ch(msg, i) = ":"
                  /\ ~IsSpace(Ch(msg, i - 1))
                  /\ IsSpace(Ch(msg, i + 1)) }
  IN  IF hits = {} THEN 0 ELSE CHOOSE i \in hits : \A j \in hits : i <= j

entry(msg) ==
  LET p == colon_at(msg)
  IN  IF p = 0 THEN << msg >>
      ELSE << SubSeq(msg, 1, p - 1), SubSeq(msg, p + 2, Len(msg)) >>

\* users.append(...)
user_of(msg) == IF Len(entry(msg)) > 1 THEN entry(msg)[1] ELSE "group_notification"

\* filter_messages.append(...)
body_of(msg) == IF Len(entry(msg)) > 1 THEN entry(msg)[2] ELSE entry(msg)[1]

\* One row of the table: the date's columns, the user and the message.
Row(t, user, message) ==
  [date      |-> t,
   user      |-> user,
   message   |-> message,
   year      |-> t.year,
   month     |-> MonthNames[t.month_num],
   day       |-> t.day,
   hour      |-> t.hour,
   minute    |-> t.minute,
   month_num |-> t.month_num,
   only_date |-> <<t.year, t.month_num, t.day>>,
   day_name  |-> DayNames[((Ordinal(t.year, t.month_num, t.day) + 6) % 7) + 1]]

\* preprocess(data): [error, df].  error is "" or the exception raised.
preprocess(data) ==
  LET messages  == split_messages(data)
      raw_dates == re_findall(data)
      dates     == [i \in 1..Len(raw_dates) |-> strip(replace_nnbsp(raw_dates[i]))]
      users     == [i \in 1..Len(messages) |-> user_of(messages[i])]
      bodies    == [i \in 1..Len(messages) |-> body_of(messages[i])]
      times     == [i \in 1..Len(dates) |-> to_datetime(dates[i])]
  IN  IF Len(messages) = 0
      THEN [error |-> "", df |-> ErrorFrame]
      ELSE IF Len(dates) # Len(users)
      THEN [error |-> "ValueError: All arrays must be of the same length", df |-> NoFrame]
      ELSE IF \E i \in 1..Len(times) : ~times[i].ok
      THEN [error |-> "ValueError: time data does not match format", df |-> NoFrame]
      ELSE [error |-> "",
            df |-> [columns |-> NormalColumns,
                    rows |-> [i \in 1..Len(dates) |-> Row(times[i], users[i], bodies[i])]]]

(***************************************************************************)
(* helper.py                                                               *)
(***************************************************************************)

\* str.split(): the maximal runs of non-whitespace characters
RECURSIVE split(_)
split(s) ==
  IF s = "" THEN << >>
  ELSE IF IsSpace(Ch(s, 1)) THEN split(Tail(s))
  ELSE LET n == CHOOSE k \in 1..Len(s) :
                  /\ \A j \in 1..k : ~IsSpace(Ch(s, j))
                  /\ (k = Len(s) \/ IsSpace(Ch(s, k + 1)))
       IN  << SubSeq(s, 1, n) >> \o split(SubSeq(s, n + 1, Len(s)))

\* " ".join(seq)
RECURSIVE join(_)
join(seq) ==
  IF Len(seq) = 0 THEN ""
  ELSE IF Len(seq) = 1 THEN seq[1]
  ELSE seq[1] \o " " \o join(Tail(seq))

\* sub in s
contains(s, sub) ==
  \E i \in 1..(Len(s) - Len(sub) + 1) : SubSeq(s, i, i + Len(sub) - 1) = sub

\* df[df['user'] == selected_user], unless selected_user is 'Overall'
scope(selected_user, rows) ==
  LET mine(r) == r.user = selected_user
  IN  IF selected_user # "Overall" THEN SelectSeq(rows, mine) ELSE rows

column(rows, name) == [i \in 1..Len(rows) |-> rows[i][name]]

get_words(series) == split(join(series))

MediaOmitted == "<Media omitted>\n"

fetch_stats(selected_user, df) ==
  LET rows     == scope(selected_user, df.rows)
      media(r) == r.message = MediaOmitted
      link(r)  == contains(r.message, "http")
  IN  [total_messages |-> Len(rows),
       total_words    |-> Len(get_words(column(rows, "message"))),
       total_media    |-> Len(SelectSeq(rows, media)),
       total_links    |-> Len(SelectSeq(rows, link))]

\* Words of sklearn's ENGLISH_STOP_WORDS (the list itself is the library's).
ENGLISH_STOP_WORDS == {"the", "is", "a", "and", "to", "of", "in"}

\* Series.replace(r"[^\w\s]", '', regex=True) of one string
RECURSIVE remove_nonword(_)
remove_nonword(s) ==
  IF s = "" THEN ""
  ELSE (IF IsWord(Ch(s, 1)) \/ IsSpace(Ch(s, 1)) THEN Ch(s, 1) ELSE "")
       \o remove_nonword(Tail(s))

\* " ".join([word for word in y.split() if word.lower() not in (stop)])
drop_stopwords(y) ==
  LET keep(word) == lower(word) \notin ENGLISH_STOP_WORDS
  IN  join(SelectSeq(split(y), keep))

filter_messages(rows) ==
  LET human(r)    == r.user # "group_notification"
      notmedia(r) == r.message # MediaOmitted
      temp        == SelectSeq(SelectSeq(rows, human), notmedia)
  IN  [i \in 1..Len(temp) |-> remove_nonword(drop_stopwords(temp[i].message))]

\* The distinct elements of a sequence, in the order they first occur: the
\* keys of Counter(seq).
RECURSIVE distinct(_)
distinct(seq) ==
  IF Len(seq) = 0 THEN << >>
  ELSE LET init == distinct(SubSeq(seq, 1, Len(seq) - 1))
           x    == seq[Len(seq)]
       IN  IF \E i \in 1..Len(init) : init[i] = x THEN init ELSE Append(init, x)

count_of(seq, x) == Cardinality({ i \in 1..Len(seq) : seq[i] = x })

\* sorted(items, key=count, reverse=True): by count, largest first; equal
\* counts keep the order they have.
RECURSIVE by_count(_)
by_count(items) ==
  IF Len(items) = 0 THEN << >>
  ELSE LET top == CHOOSE i \in 1..Len(items) :
                    /\ \A j \in 1..Len(items) : items[j].count <= items[i].count
                    /\ \A j \in 1..(i - 1) : items[j].count < items[i].count
           rest == [j \in 1..(Len(items) - 1) |-> IF j < top THEN items[j] ELSE items[j + 1]]
       IN  << items[top] >> \o by_count(rest)

\* The n of word_counts.most_common(n)
TopWords == 20

\* Counter(words).most_common(TopWords)
most_common(words) ==
  LET keys   == distinct(words)
      sorted == by_count([i \in 1..Len(keys) |-> [word |-> keys[i], count |-> count_of(words, keys[i])]])
  IN  SubSeq(sorted, 1, IF Len(sorted) < TopWords THEN Len(sorted) ELSE TopWords)

\* pd.DataFrame({})
EmptyFrame == [columns |-> << >>, rows |-> << >>]

most_common_words(selected_user, df) ==
  LET rows             == scope(selected_user, df.rows)
      counter_as_tuple == most_common(split(join(filter_messages(rows))))
  IN  IF Len(counter_as_tuple) > 0
      THEN [columns |-> <<"word", "count">>, rows |-> counter_as_tuple]
      ELSE EmptyFrame

\* The keys df.groupby(['year','month_num','month']) finds, smallest first.
RECURSIVE sorted_keys(_)
sorted_keys(S) ==
  IF S = {} THEN << >>
  ELSE LET k == CHOOSE a \in S : \A b \in S :
                  \/ a[1] < b[1]
                  \/ a[1] = b[1] /\ a[2] < b[2]
                  \/ a[1] = b[1] /\ a[2] = b[2] /\ (a[3] = b[3] \/ StrLess(a[3], b[3]))
       IN  << k >> \o sorted_keys(S \ {k})

group_keys(rows) == { <<rows[i].year, rows[i].month_num, rows[i].month>> : i \in 1..Len(rows) }

\* monthly_timeline grouping by the month alone, df.groupby(['month_num',
\* 'month']): the years of a month fall into one row, labelled with the year
\* of its first record.
monthly_timeline_by_month(selected_user, df) ==
  LET rows     == scope(selected_user, df.rows)
      first(m) == CHOOSE i \in 1..Len(rows) :
                    /\ rows[i].month_num = m
                    /\ \A j \in 1..(i - 1) : rows[j].month_num # m
      keys     == sorted_keys({ <<rows[first(rows[i].month_num)].year, rows[i].month_num,
                                  rows[i].month>> : i \in 1..Len(rows) })
      n(k)     == Cardinality({ i \in 1..Len(rows) : rows[i].month_num = k[2] })
  IN  [i \in 1..Len(keys) |->
         [year      |-> keys[i][1],
          month_num |-> keys[i][2],
          month     |-> keys[i][3],
          message   |-> n(keys[i]),
          time      |-> keys[i][3] \o "-" \o ToString(keys[i][1])]]

monthly_timeline(selected_user, df) ==
  LET rows == scope(selected_user, df.rows)
      keys == sorted_keys(group_keys(rows))
      n(k) == Cardinality({ i \in 1..Len(rows) :
                <<rows[i].year, rows[i].month_num, rows[i].month>> = k })
  IN  [i \in 1..Len(keys) |->
         [year      |-> keys[i][1],
          month_num |-> keys[i][2],
          month     |-> keys[i][3],
          message   |-> n(keys[i]),
          time      |-> keys[i][3] \o "-" \o ToString(keys[i][1])]]

(***************************************************************************)
(* app.py: the script                                                      *)
(***************************************************************************)

VARIABLES
  data,            \* the decoded text of the uploaded file
  pc,              \* where the script is
  error,           \* the exception that ended the script, "" when none
  df,              \* the table preprocess returned
  userlist,        \* the options of the sender selectbox
  selected_user,   \* the option chosen when "Show Analysis" was pressed
  stats,           \* what fetch_stats returned
  timeline,        \* what monthly_timeline returned
  most_common_df,  \* what most_common_words returned
  words_shown      \* what the "Most Common Words" section rendered

vars == << data, pc, error, df, userlist, selected_user, stats, timeline,
           most_common_df, words_shown >>

\* The lines a transcript is made of: a message, a system line, a media
\* placeholder, a narrow no-break space before the meridiem (and a stopword
\* with a comma), a four-digit year, an upper-case meridiem, a colon at the
\* end of a line, a timestamp inside a line.
Lines ==
  << "1/1/23, 10:00 am - Alice: hi\n",
     "1/1/23, 10:05 am - Bob added Alice\n",
     "15/1/23, 9:05 pm - Alice: <Media omitted>\n",
     "1/1/24, 12:00~am - Bob: the, cat: The dog\n",
     "2/2/2023, 1:30 pm - Bob: hi\n",
     "1/1/23, 10:00 AM - Alice: hi\n",
     "3/12/99, 12:30 pm - Note:\n",
     "Bob: on 1/1/23, 10:00 am - ok\n" >>

RECURSIVE concat(_)
concat(seq) == IF Len(seq) = 0 THEN "" ELSE seq[1] \o concat(Tail(seq))

\* A file of at most MaxLines lines, with or without the newline that ends
\* its last line.
Transcripts ==
  LET texts == UNION { { concat([i \in 1..n |-> Lines[f[i]]]) :
                           f \in [1..n -> 1..Len(Lines)] } : n \in 0..MaxLines }
  IN  texts \cup { SubSeq(t, 1, Len(t) - 1) : t \in texts \ {""} }

NoStats == [total_messages |-> 0, total_words |-> 0, total_media |-> 0, total_links |-> 0]

\* uploded_file is not None: data = uploded_file.read().decode('utf-8')
Init ==
  /\ data \in Transcripts
  /\ pc = "uploaded"
  /\ error = ""
  /\ df = NoFrame
  /\ userlist = << >>
  /\ selected_user = ""
  /\ stats = NoStats
  /\ timeline = << >>
  /\ most_common_df = EmptyFrame
  /\ words_shown = ""

\* df = preprocess.preprocess(data)
Preprocess ==
  /\ pc = "uploaded"
  /\ \E r \in { preprocess(data) } :
         /\ df' = r.df
         /\ error' = r.error
         /\ pc' = IF r.error = "" THEN "parsed" ELSE "crashed"
  /\ UNCHANGED << data, userlist, selected_user, stats, timeline, most_common_df, words_shown >>

\* df.shape[0] == 1
one_row(d) == Len(d.rows) = 1

\* if df.shape[0] == 1: st.dataframe(df); sys.exit()
ShapeCheck ==
  /\ pc = "parsed"
  /\ pc' = IF one_row(df) THEN "exited" ELSE "shown"
  /\ UNCHANGED << data, error, df, userlist, selected_user, stats, timeline,
                  most_common_df, words_shown >>

\* list.sort() of strings that differ
RECURSIVE sorted_strings(_)
sorted_strings(S) ==
  IF S = {} THEN << >>
  ELSE LET m == CHOOSE a \in S : \A b \in S : a = b \/ StrLess(a, b)
       IN  << m >> \o sorted_strings(S \ {m})

\* df['user'].unique().tolist()
unique_users(d) == distinct(column(d.rows, "user"))

\* userlist.remove('group_notification') raises ValueError when it is not there
can_remove(users) == \E i \in 1..Len(users) : users[i] = "group_notification"

\* remove, sort, insert(0, 'Overall')
build_userlist(users) ==
  << "Overall" >> \o sorted_strings({ users[i] : i \in 1..Len(users) } \ {"group_notification"})

BuildUserList ==
  /\ pc = "shown"
  /\ \E users \in { unique_users(df) } :
       IF can_remove(users)
       THEN /\ userlist' = build_userlist(users)
            /\ pc' = "select"
            /\ error' = error
       ELSE /\ userlist' = userlist
            /\ pc' = "crashed"
            /\ error' = "ValueError: list.remove(x): x not in list"
  /\ UNCHANGED << data, df, selected_user, stats, timeline, most_common_df, words_shown >>

\* "Show Analysis" pressed with option u chosen: the counts and the monthly
\* timeline (the charts that follow read the table and keep nothing).
ShowAnalysis(u) ==
  /\ pc = "select"
  /\ selected_user' = u
  /\ stats' = fetch_stats(u, df)
  /\ timeline' = monthly_timeline(u, df)
  /\ pc' = "analysis"
  /\ UNCHANGED << data, error, df, userlist, most_common_df, words_shown >>

\* if most_common_df.empty
frame_empty(d) == Len(d.rows) = 0

\* The "Most Common Words" section: the branch taken when most_common_df.empty
\* holds draws the bar chart from most_common_df['word'], which pd.DataFrame({})
\* does not have (KeyError); the other branch writes "No data found!".
MostCommonWords ==
  /\ pc = "analysis"
  /\ \E d \in { most_common_words(selected_user, df) } :
         /\ most_common_df' = d
         /\ IF frame_empty(d)
            THEN IF \E i \in 1..Len(d.columns) : d.columns[i] = "word"
                 THEN words_shown' = "chart" /\ pc' = "emojis" /\ error' = error
                 ELSE words_shown' = words_shown /\ pc' = "crashed" /\ error' = "KeyError: 'word'"
            ELSE words_shown' = "No data found!" /\ pc' = "emojis" /\ error' = error
  /\ UNCHANGED << data, df, userlist, selected_user, stats, timeline >>

\* The "Most Common Emojis" section, the last of the script.
MostCommonEmojis ==
  /\ pc = "emojis"
  /\ pc' = "done"
  /\ UNCHANGED << data, error, df, userlist, selected_user, stats, timeline,
                  most_common_df, words_shown >>

Next ==
  \/ Preprocess
  \/ ShapeCheck
  \/ BuildUserList
  \/ \E u \in { userlist[i] : i \in 1..Len(userlist) } : ShowAnalysis(u)
  \/ MostCommonWords
  \/ MostCommonEmojis

Spec == Init /\ [][Next]_vars

(***************************************************************************)
(* Properties                                                              *)
(***************************************************************************)

\* preprocess has returned or raised.
Preprocessed == pc # "uploaded"

\* preprocess returned the table of records.
NormalTable == Preprocessed /\ error # "ValueError: time data does not match format" /\ df.columns = NormalColumns

\* The one-row check has run.
ShapeChecked ==
  \/ pc \in {"exited", "shown", "select", "analysis", "emojis", "done"}
  \/ pc = "crashed" /\ error # "ValueError: time data does not match format"

\* The sender list has been built, or building it raised.
UserListRan ==
  \/ pc \in {"select", "analysis", "emojis", "done"}
  \/ pc = "crashed" /\ error \in {"ValueError: list.remove(x): x not in list", "KeyError: 'word'"}

\* "Show Analysis" has run with a sender chosen.
Analysed == selected_user # ""

\* The "Most Common Words" section has run.
WordsRan == pc \in {"emojis", "done"} \/ (pc = "crashed" /\ error = "KeyError: 'word'")

\* The records in scope: all of them, or those of the selected sender.
InScope == { i \in 1..Len(df.rows) : selected_user = "Overall" \/ df.rows[i].user = selected_user }

\* The positions of data where the delimiter pattern matches.
MatchStarts == { i \in 1..Len(data) : match_end(pattern, data, i) # 0 }

\* The delimiter pattern matches nowhere in data.
NoDelimiter == \A i \in 1..Len(data) : match_end(pattern, data, i) = 0

\* The positions of data where a line starts with a delimiter token.
LineStartTokens == { i \in MatchStarts : i = 1 \/ Ch(data, i - 1) = "\n" }

\* The k-th smallest element of a set of numbers.
Kth(S, k) == CHOOSE x \in S : Cardinality({ y \in S : y < x }) = k - 1

C2_OneRecordPerLineStartToken ==
  (NormalTable /\ LineStartTokens # {}) =>
    /\ Len(df.rows) = Cardinality(LineStartTokens)
    /\ \A i \in 1..Len(df.rows) :
         i <= Cardinality(LineStartTokens) =>
           LET from  == Kth(LineStartTokens, i)
               to    == match_end(pattern, data, from)
               next  == IF i < Cardinality(LineStartTokens)
                        THEN Kth(LineStartTokens, i + 1) ELSE Len(data) + 1
               chunk == SubSeq(data, to, next - 1)
           IN  /\ df.rows[i].date = to_datetime(strip(replace_nnbsp(SubSeq(data, from, to - 1))))
               /\ df.rows[i].user = user_of(chunk)
               /\ df.rows[i].message = body_of(chunk)

\* The first colon of a chunk that follows a non-whitespace character and is
\* followed by one space; 0 when the chunk has none.
ColonSpace(chunk) ==
  LET hits == { i \in 2..(Len(chunk) - 1) :
                  Ch(chunk, i) = ":" /\ Ch(chunk, i + 1) = " " /\ ~IsSpace(Ch(chunk, i - 1)) }
  IN  IF hits = {} THEN 0 ELSE Kth(hits, 1)

\* C3: the sender of a chunk is the text before its first colon that follows a
\* non-whitespace character and is followed by a space, and the body is all
\* that follows; a chunk with no such colon has sender group_notification and
\* is its own body.  The sender is never empty.
C3_SenderAndBody ==
  NormalTable =>
    \A i \in 1..Len(df.rows) :
      LET chunk == split_messages(data)[i]
          p     == ColonSpace(chunk)
      IN  /\ df.rows[i].user # ""
          /\ p # 0 => /\ df.rows[i].user = SubSeq(chunk, 1, p - 1)
                      /\ df.rows[i].message = SubSeq(chunk, p + 2, Len(chunk))
          /\ p = 0 => /\ df.rows[i].user = "group_notification"
                      /\ df.rows[i].message = chunk

\* C4: the one-row check ends the script exactly when preprocess returned the
\* error sentinel; with at least one delimiter match the script goes on to the
\* sender list.
C4_AbortIffSentinel ==
  ShapeChecked => ((pc = "exited") <=> (df.columns = << "Error" >>))

\* C5: for a table of records, building the sender list raises nothing and
\* gives 'Overall' followed by the distinct users other than
\* group_notification in sorted order, whether or not a record is a
\* group_notification.
C5_SenderList ==
  (NormalTable /\ UserListRan) =>
    LET users == { df.rows[i].user : i \in 1..Len(df.rows) } \ {"group_notification"}
    IN  /\ error # "ValueError: list.remove(x): x not in list"
        /\ Len(userlist) = 1 + Cardinality(users)
        /\ userlist[1] = "Overall"
        /\ { userlist[i] : i \in 2..Len(userlist) } = users
        /\ \A i \in 2..(Len(userlist) - 1) : StrLess(userlist[i], userlist[i + 1])

\* A body that is the media placeholder, with or without the newline that ends
\* its line.
IsMediaPlaceholder(body) == body \in {"<Media omitted>", "<Media omitted>\n"}

\* The words most_common_words may count: the tokens, without their non-word
\* characters, of the bodies in scope that no group_notification wrote and
\* that are not the media placeholder.
CountableWords ==
  UNION { { remove_nonword(split(df.rows[i].message)[k]) :
              k \in 1..Len(split(df.rows[i].message)) } :
          i \in { j \in InScope : /\ df.rows[j].user # "group_notification"
                                  /\ ~IsMediaPlaceholder(df.rows[j].message) } }

\* C6: the result of most_common_words holds no stopword (whatever its case),
\* no token of a group_notification record or of a media placeholder, and at
\* most 20 rows in descending order of count.
C6_CommonWords ==
  WordsRan =>
    /\ Len(most_common_df.rows) <= 20
    /\ \A i \in 1..Len(most_common_df.rows) :
         /\ lower(most_common_df.rows[i].word) \notin ENGLISH_STOP_WORDS
         /\ most_common_df.rows[i].word \in CountableWords
         /\ i > 1 => most_common_df.rows[i - 1].count >= most_common_df.rows[i].count

\* C7: total_messages is the number of records in scope and total_media the
\* number of records in scope whose body is the media placeholder, wherever
\* the placeholder sits in the transcript.
C7_MessageAndMediaCounts ==
  Analysed =>
    /\ stats.total_messages = Cardinality(InScope)
    /\ stats.total_media =
         Cardinality({ i \in InScope : IsMediaPlaceholder(df.rows[i].message) })

\* C8: every span the delimiter pattern matched becomes a timestamp: preprocess
\* raises no date-parse error and returns one record per match.
C8_TimestampsTotal ==
  (Preprocessed /\ MatchStarts # {}) =>
    /\ error = ""
    /\ Len(df.rows) = Len(re_findall(data))

\* The (year, month) pairs of the records in scope.
MonthsInScope == { <<df.rows[i].year, df.rows[i].month_num>> : i \in InScope }

\* C9: monthly_timeline returns exactly one row per (year, month) in scope, in
\* chronological order, each with the number of messages in scope in that
\* month and the label MonthName-Year; the counts add up to the number of
\* messages in scope.
C9_MonthlyTimeline ==
  Analysed =>
    /\ Len(timeline) = Cardinality(MonthsInScope)
    /\ \A k \in 1..Len(timeline) :
         /\ <<timeline[k].year, timeline[k].month_num>> \in MonthsInScope
         /\ timeline[k].message =
              Cardinality({ i \in InScope : /\ df.rows[i].year = timeline[k].year
                                            /\ df.rows[i].month_num = timeline[k].month_num })
         /\ timeline[k].month = MonthNames[timeline[k].month_num]
         /\ timeline[k].time = MonthNames[timeline[k].month_num] \o "-" \o ToString(timeline[k].year)
    /\ \A k \in 1..(Len(timeline) - 1) :
         \/ timeline[k].year < timeline[k + 1].year
         \/ /\ timeline[k].year = timeline[k + 1].year
            /\ timeline[k].month_num < timeline[k + 1].month_num
    /\ Sum([k \in 1..Len(timeline) |-> timeline[k].message]) = Cardinality(InScope)

\* A timeline with two messages of one month in one row and the same month of
\* another year in a row of its own.
C9_Witness ==
  /\ Analysed
  /\ \E j, k \in 1..Len(timeline) :
       /\ timeline[j].message = 2
       /\ timeline[j].month_num = timeline[k].month_num
       /\ timeline[j].year # timeline[k].year

\* C10: an empty most_common_words result is not fatal: the caller writes the
\* "no data" indication and goes on to the emoji section without raising; a
\* result that is not empty is drawn as the word chart.
C10_EmptyWordsNonFatal ==
  WordsRan =>
    /\ error = ""
    /\ pc \in {"emojis", "done"}
    /\ words_shown = IF Len(most_common_df.rows) = 0 THEN "No data found!" ELSE "chart"

====
